---- MODULE Spec2Model ----
(***************************************************************************)
(* Model of ikigai_whatsapp_bot/services.py: BaseService (per-user         *)
(* instruction queue, worker, action executor with button batching and     *)
(* delivery-ack gating), WebSocketService (per-user connection registry,   *)
(* receive loop, send with one retry) and APIService (request/response     *)
(* calls whose answer is a list of instructions).                          *)
(*                                                                         *)
(* One TLA+ step is one run of an asyncio task between two suspension      *)
(* points (await of websockets.connect, of a channel send, of the ack      *)
(* wait, of queue.get on an empty queue); everything the code does         *)
(* without suspending is inside the same step.                             *)
(*                                                                         *)
(* Inbound frames are either undecodable text or JSON envelopes            *)
(* {action, content} (spec section 6); the payload of an envelope may or   *)
(* may not validate against the schema of its tag.                         *)
(***************************************************************************)
EXTENDS Integers, Sequences, FiniteSets, TLC

VARIABLES
    user_queues,   \* BaseService.user_queues: user -> pending instructions
    user_tasks,    \* keys of BaseService.user_tasks
    worker,        \* per user: position of _process_queue
    channel,       \* per user: calls made on whatsapp_client, in order
    enqueued,      \* per user: items put by add_response_to_queue (history)
    handled,       \* per user: items handed to _handle_response (history)
    failed,        \* per user: serials logged by the except branch (history)
    serial,        \* number of instructions enqueued so far
    connections,   \* WebSocketService.connections: user -> connection id
    transports,    \* connection id -> transport and receive-loop state
    posts,         \* post_*_to_server calls started so far
    menu,          \* frames the backend may push in this run
    budget         \* how many envelopes it pushes in this run

vars == <<user_queues, user_tasks, worker, channel, enqueued, handled, failed,
          serial, connections, transports, posts, menu, budget>>

Users == {"u1", "u2"}

\* ------------------------------------------------------------------ bounds
MaxButtons == 7     \* most interactive choices carried by one action
MaxInstr == 2       \* envelopes of any shape handed to the base class in one run
MaxQueued == 3      \* envelopes of the small menu handed to the base class in one run
MaxFrames == 1      \* envelopes received on connections in one run
MaxConns == 2       \* transport connections opened in one run
MaxPosts == 2       \* outbound calls started in one run

\* ------------------------------------------------------- program constants
ButtonsPerMessage == 3   \* services.py: buttons[:3], range(3, len(buttons), 3)
TitleLen == 20           \* services.py: button.label[:20]
EMPTY_MESSAGE_CONTENT == "_"

\* enums.py ResponseTypes: member name -> value.  There is no STOP_PROCESS.
ResponseTypes ==
    [MESSAGE |-> "message", IMAGE |-> "image", ADD_ROLE |-> "add_role",
     REMOVE_ROLE |-> "remove_role", START_TYPING |-> "start_typing",
     STOP_TYPING |-> "stop_typing"]

\* ----------------------------------------------------------------- helpers
Min(a, b) == IF a < b THEN a ELSE b

Last(s) == s[Len(s)]

IsPrefix(s, t) == Len(s) <= Len(t) /\ SubSeq(t, 1, Len(s)) = s

\* Python slice s[i:j] on a 0-based sequence
Slice(s, i, j) == SubSeq(s, i + 1, Min(j, Len(s)))

\* str.endswith
EndsWith(s, suf) ==
    Len(s) >= Len(suf) /\ SubSeq(s, Len(s) - Len(suf) + 1, Len(s)) = suf

\* position of the last "." of a path, 0 when it has none
LastDot(s) ==
    LET dots == {i \in 1..Len(s) : s[i] = "."}
    IN IF dots = {} THEN 0 ELSE CHOOSE i \in dots : \A j \in dots : j <= i

\* str(image).rsplit(".", 1)[0] + ".webp"
ToWebp(image) ==
    (IF LastDot(image) = 0 THEN image ELSE SubSeq(image, 1, LastDot(image) - 1))
        \o <<".", "w", "e", "b", "p">>

GifExt == <<".", "g", "i", "f">>
GifPath == <<"a", ".", "g", "i", "f">>
PngPath == <<"a", ".", "p", "n", "g">>

\* ------------------------------------------------------------ instructions
\* ButtonResponse list of an envelope: n buttons, button i with a label of
\* 18 + i characters (so labels shorter and longer than the title limit occur)
ButtonList(n) == [i \in 1..n |-> [id |-> i, label_len |-> 18 + i]]

Envelope(action, valid, message, image, caption, n) ==
    [action |-> action, valid |-> valid, message |-> message, image |-> image,
     caption |-> caption, buttons |-> ButtonList(n)]

MessageEnv(text, n) == Envelope("message", TRUE, text, <<>>, "", n)
ImageEnv(path, caption, n) == Envelope("image", TRUE, "", path, caption, n)
PlainEnv(action) == Envelope(action, TRUE, "", <<>>, "", 0)
InvalidEnv(action) == Envelope(action, FALSE, "", <<>>, "", 0)

\* what json.loads cannot decode
Undecodable == [action |-> "<undecodable>"]

\* every envelope of the model
AllEnvelopes ==
    {MessageEnv(t, n) : t \in {"hi", ""}, n \in 0..MaxButtons}
    \cup {ImageEnv(p, c, n) : p \in {PngPath, GifPath}, c \in {"", "cap"},
                               n \in 0..MaxButtons}
    \cup {PlainEnv(a) : a \in {"add_role", "remove_role", "start_typing",
                                "stop_typing", "stop_process", "dance"}}
    \cup {InvalidEnv(a) : a \in {"message", "image", "add_role", "start_typing"}}


\* ---------------------------------------------------------- ActionExecutor
\* _create_buttons: Button(title=label[:20], callback_data=ButtonData(...))
create_buttons(buttons) ==
    [i \in 1..Len(buttons) |->
        [title_len |-> Min(buttons[i].label_len, TitleLen),
         callback_data |-> buttons[i].id]]

TextCall(text, buttons) ==
    [kind |-> "text", text |-> text, image |-> <<>>, caption |-> "",
     buttons |-> buttons]
ImageCall(image, caption, buttons) ==
    [kind |-> "image", text |-> "", image |-> image, caption |-> caption,
     buttons |-> buttons]
StickerCall(sticker) ==
    [kind |-> "sticker", text |-> "", image |-> sticker, caption |-> "",
     buttons |-> <<>>]

\* The channel calls _send_text makes when every call returns and every ack
\* wait resolves by confirmation, in order.
RECURSIVE send_text(_, _), follow_ups(_, _)
send_text(text, buttons) ==
    IF Len(buttons) > 0 /\ Len(buttons) > ButtonsPerMessage
    THEN <<TextCall(text, Slice(buttons, 0, ButtonsPerMessage))>>
            \o follow_ups(buttons, ButtonsPerMessage)
    ELSE <<TextCall(text, buttons)>>

\* for i in range(3, len(buttons), 3): _send_text(EMPTY, buttons[i : i + 3])
FollowUpsDropped(buttons, i) == <<>>
follow_ups(buttons, i) ==
    IF i >= Len(buttons) THEN <<>>
    ELSE send_text(EMPTY_MESSAGE_CONTENT, Slice(buttons, i, i + ButtonsPerMessage))
            \o follow_ups(buttons, i + ButtonsPerMessage)

send_image(image, caption, buttons) ==
    IF Len(buttons) > 0 /\ Len(buttons) > ButtonsPerMessage
    THEN <<ImageCall(image, caption, Slice(buttons, 0, ButtonsPerMessage))>>
            \o follow_ups(buttons, ButtonsPerMessage)
    ELSE <<ImageCall(image, caption, buttons)>>

send_message_to_user(response) ==
    LET content == IF response.message = "" THEN EMPTY_MESSAGE_CONTENT
                   ELSE response.message
    IN IF Len(response.buttons) > 0 \/ content # ""
       THEN send_text(content, create_buttons(response.buttons))
       ELSE <<>>

\* the sticker branch does not return: _send_image runs after it
send_image_to_user(response) ==
    LET buttons == create_buttons(response.buttons)
    IN IF EndsWith(response.image, GifExt)
       THEN <<StickerCall(ToWebp(response.image))>>
               \o send_image(ToWebp(response.image), response.caption, buttons)
       ELSE send_image(response.image, response.caption, buttons)

\* tags whose case of _handle_response builds a pydantic model of the content
Validated == {ResponseTypes.MESSAGE, ResponseTypes.IMAGE, ResponseTypes.ADD_ROLE,
              ResponseTypes.REMOVE_ROLE, ResponseTypes.START_TYPING,
              ResponseTypes.STOP_TYPING}

\* _handle_response raises before any channel call: the payload does not
\* validate, or names no platform id for the user (env.valid is FALSE)
NeverRaises(env) == FALSE
handle_raises(env) == env.action \in Validated /\ ~env.valid

\* the channel calls of _handle_response(action, content), in order
handle_response(env) ==
    CASE env.action = ResponseTypes.MESSAGE -> send_message_to_user(env)
      [] env.action = ResponseTypes.IMAGE -> send_image_to_user(env)
      [] OTHER -> <<>>

\* the comparison as it would go with a STOP_PROCESS member in the enum
StopCheckWithMember(event) ==
    IF event = "stop_process" THEN "close" ELSE "continue"

\* _process_queue after _handle_response returned `event`:
\* `event == ResponseTypes.STOP_PROCESS.value` raises AttributeError when the
\* enum has no such member.
stop_check(event) ==
    IF "STOP_PROCESS" \in DOMAIN ResponseTypes
    THEN (IF event = ResponseTypes.STOP_PROCESS THEN "close" ELSE "continue")
    ELSE "AttributeError"

\* `except Exception` of _process_queue: every exception of the handler is caught
CaughtNothing(exc) == FALSE
CaughtAllButTimeout(exc) == exc # "ListenerTimeout"
caught(exc) == TRUE

\* _wait_for_message_to_be_sent awaits whatsapp_client.listen for the message
NoAckWait == FALSE
waits_for_ack == TRUE

\* task = await queue.get(): the oldest item, and the queue without it
QueueGetNewest(q) == <<q[Len(q)], SubSeq(q, 1, Len(q) - 1)>>
queue_get(q) == <<Head(q), Tail(q)>>


\* --------------------------------------------------------- worker positions
NoEnv == PlainEnv("<none>")
\* blocked in `await queue.get()`
Idle == [pc |-> "get", n |-> 0, env |-> NoEnv, idx |-> 0]
\* no task was ever created for the user
NoWorker == [pc |-> "none", n |-> 0, env |-> NoEnv, idx |-> 0]
\* the loop was left: by `break`, or by an exception that was not caught
Exited(how) == [pc |-> how, n |-> 0, env |-> NoEnv, idx |-> 0]

Started(call, n) ==
    [kind |-> call.kind, text |-> call.text, image |-> call.image,
     caption |-> call.caption, buttons |-> call.buttons, of |-> n,
     status |-> "sending"]

SetStatus(ch, u, st) == [ch EXCEPT ![u][Len(ch[u])].status = st]

Without(f, u) == [x \in DOMAIN f \ {u} |-> f[x]]

\* `if user_id not in self.user_queues` of _get_or_create_queue
AlwaysNeedsQueue(queues, u) == TRUE
needs_queue(queues, u) == u \notin DOMAIN queues

\* the part of the state add_response_to_queue works on
BaseState ==
    [queues |-> user_queues, tasks |-> user_tasks, worker |-> worker,
     enqueued |-> enqueued, serial |-> serial]

\* _get_or_create_queue then queue.put, on state st
put(st, u, env) ==
    LET created == needs_queue(st.queues, u)
        q == IF created THEN <<>> ELSE st.queues[u]
        item == [n |-> st.serial + 1, env |-> env]
    IN [queues |-> [x \in DOMAIN st.queues \cup {u} |->
                      IF x = u THEN Append(q, item) ELSE st.queues[x]],
        tasks |-> IF created THEN st.tasks \cup {u} ELSE st.tasks,
        worker |-> IF created THEN [st.worker EXCEPT ![u] = Idle] ELSE st.worker,
        enqueued |-> [st.enqueued EXCEPT ![u] = Append(@, item)],
        serial |-> st.serial + 1]

\* the state becomes st
Becomes(st) ==
    /\ serial' = st.serial
    /\ user_queues' = st.queues
    /\ user_tasks' = st.tasks
    /\ worker' = st.worker
    /\ enqueued' = st.enqueued

\* _get_or_create_queue then queue.put: no suspension in between (the queue is
\* unbounded), so the whole of add_response_to_queue is one step
add_response_to_queue(u, env) == Becomes(put(BaseState, u, env))

\* _close_queue
close_queue(queues, u) == Without(queues, u)

\* a failure that is logged against every user
RaisedForAll(u, n, exc, queues, ch) ==
    /\ user_queues' = queues
    /\ channel' = ch
    /\ user_tasks' = user_tasks
    /\ failed' = [x \in Users |-> Append(failed[x], n)]
    /\ worker' = [worker EXCEPT ![u] = Idle]

\* The handler raised `exc` while the worker of u was on instruction n:
\* the except branch logs it and the loop goes on, or the task dies.
Raised(u, n, exc, queues, ch) ==
    /\ user_queues' = queues
    /\ channel' = ch
    /\ user_tasks' = user_tasks
    /\ failed' = IF caught(exc) THEN [failed EXCEPT ![u] = Append(@, n)] ELSE failed
    /\ worker' = [worker EXCEPT ![u] = IF caught(exc) THEN Idle ELSE Exited("crashed")]

\* _handle_response returned: the STOP_PROCESS test of _process_queue
Returned(u, n, env, queues, ch) ==
    LET r == stop_check(env.action)
    IN IF r = "AttributeError" THEN Raised(u, n, r, queues, ch)
       ELSE /\ channel' = ch
            /\ failed' = failed
            /\ user_queues' = IF r = "close" THEN close_queue(queues, u) ELSE queues
            /\ user_tasks' = IF r = "close" THEN user_tasks \ {u} ELSE user_tasks
            /\ worker' = [worker EXCEPT ![u] =
                            IF r = "close" THEN Exited("stopped") ELSE Idle]

\* The worker of u goes on after call idx of its instruction: the next call of
\* the instruction starts, or _handle_response returns.
Proceed(u, n, env, idx, queues, ch) ==
    LET plan == handle_response(env)
    IN IF idx < Len(plan)
       THEN /\ channel' = [ch EXCEPT ![u] = Append(@, Started(plan[idx + 1], n))]
            /\ worker' = [worker EXCEPT ![u] =
                            [pc |-> "sending", n |-> n, env |-> env, idx |-> idx + 1]]
            /\ user_queues' = queues
            /\ UNCHANGED <<user_tasks, failed>>
       ELSE Returned(u, n, env, queues, ch)

\* ------------------------------------------------------ BaseService actions
\* task = await queue.get(); _handle_response(task["action"], task["content"])
\* up to its first suspension
WorkerGet(u) ==
    /\ worker[u].pc = "get"
    /\ u \in DOMAIN user_queues
    /\ Len(user_queues[u]) > 0
    /\ LET got == queue_get(user_queues[u])
           item == got[1]
           queues == [user_queues EXCEPT ![u] = got[2]]
       IN /\ handled' = [handled EXCEPT ![u] = Append(@, item)]
          /\ IF handle_raises(item.env)
             THEN Raised(u, item.n, "ValidationError", queues, channel)
             ELSE Proceed(u, item.n, item.env, 0, queues, channel)
    /\ UNCHANGED <<enqueued, serial, connections, transports, posts, menu, budget>>

\* whatsapp_client.send_* returned a SentMessage; the ack wait starts
SendReturns(u) ==
    /\ worker[u].pc = "sending"
    /\ IF waits_for_ack
       THEN /\ channel' = SetStatus(channel, u, "waiting")
            /\ worker' = [worker EXCEPT ![u].pc = "ack"]
            /\ UNCHANGED <<user_queues, user_tasks, failed>>
       ELSE Proceed(u, worker[u].n, worker[u].env, worker[u].idx, user_queues,
                    SetStatus(channel, u, "waiting"))
    /\ UNCHANGED <<enqueued, handled, serial, connections, transports, posts, menu, budget>>

\* whatsapp_client.send_* raised
SendRaises(u) ==
    /\ worker[u].pc = "sending"
    /\ Raised(u, worker[u].n, "SendError", user_queues,
              SetStatus(channel, u, "failed"))
    /\ UNCHANGED <<enqueued, handled, serial, connections, transports, posts, menu, budget>>

\* the channel confirmed the delivery: listen() returns
AckConfirmed(u) ==
    /\ worker[u].pc = "ack"
    /\ Proceed(u, worker[u].n, worker[u].env, worker[u].idx, user_queues,
               SetStatus(channel, u, "confirmed"))
    /\ UNCHANGED <<enqueued, handled, serial, connections, transports, posts, menu, budget>>

\* QUEUE_TASK_TIMEOUT elapsed: pywa's listen() raises ListenerTimeout, which
\* nothing between the wait and _process_queue catches
AckTimeout(u) ==
    /\ worker[u].pc = "ack"
    /\ Raised(u, worker[u].n, "ListenerTimeout", user_queues,
              SetStatus(channel, u, "timeout"))
    /\ UNCHANGED <<enqueued, handled, serial, connections, transports, posts, menu, budget>>

\* a caller of the base class (the API service, a receive loop) hands over an
\* envelope
AddResponse(u, env) ==
    /\ serial < budget
    /\ add_response_to_queue(u, env)
    /\ UNCHANGED <<channel, handled, failed, connections, transports, posts, menu, budget>>

\* ----------------------------------------------------------- BaseService
InitCommon ==
    /\ user_queues = <<>>
    /\ user_tasks = {}
    /\ worker = [u \in Users |-> NoWorker]
    /\ channel = [u \in Users |-> <<>>]
    /\ enqueued = [u \in Users |-> <<>>]
    /\ handled = [u \in Users |-> <<>>]
    /\ failed = [u \in Users |-> <<>>]
    /\ serial = 0
    /\ connections = <<>>
    /\ transports = <<>>
    /\ posts = <<>>

\* the backend pushes one kind of envelope of any shape, and plain messages
InitBase ==
    /\ InitCommon
    /\ \E env \in AllEnvelopes : menu = {env, MessageEnv("hi", 1)}
    /\ budget = MaxInstr

NextBase ==
    \/ \E u \in Users : \E env \in menu : AddResponse(u, env)
    \/ \E u \in Users : WorkerGet(u)
    \/ \E u \in Users : SendReturns(u)
    \/ \E u \in Users : SendRaises(u)
    \/ \E u \in Users : AckConfirmed(u)
    \/ \E u \in Users : AckTimeout(u)

SpecBase == InitBase /\ [][NextBase]_vars

\* the backend pushes more envelopes, of three kinds: a message with two
\* groups of choices, a message whose payload does not validate, the terminal
\* instruction
InitQueue ==
    /\ InitCommon
    /\ menu = {MessageEnv("hi", 4), InvalidEnv("message"), PlainEnv("stop_process")}
    /\ budget = MaxQueued

SpecQueue == InitQueue /\ [][NextBase]_vars

\* The event loop runs every task that can run, and every channel send and
\* every ack wait ends: the send returns or raises, the wait is confirmed or
\* times out after QUEUE_TASK_TIMEOUT.
FairWorkers ==
    \A u \in Users :
        /\ WF_vars(WorkerGet(u))
        /\ WF_vars(SendReturns(u) \/ SendRaises(u))
        /\ WF_vars(AckConfirmed(u) \/ AckTimeout(u))

\* the backend pushes a message with one group of choices and the terminal
\* instruction
InitFair ==
    /\ InitCommon
    /\ menu = {MessageEnv("hi", 1), PlainEnv("stop_process")}
    /\ budget = MaxQueued

SpecQueueFair == InitFair /\ [][NextBase]_vars /\ FairWorkers


\* ----------------------------------------------------- WebSocketService
\* a transport connection websockets.connect returned, with the task started
\* for it by asyncio.create_task(_listen_to_connection(connection, user_id))
NewTransport(u, alive) ==
    [user |-> u, open |-> alive, listener |-> "running", sent |-> <<>>]

\* self.connections.pop(user_id, None)
PopKeeps(conns, u) == conns
PopClearsWhenAbsent(conns, u) == IF u \in DOMAIN conns THEN Without(conns, u) ELSE <<>>
pop(conns, u) == Without(conns, u)

\* self.connections[user_id] = connection
Register(conns, u, c) ==
    [x \in DOMAIN conns \cup {u} |-> IF x = u THEN c ELSE conns[x]]

\* `if is_retry: raise e`: the call that already is the retry gives up
AlwaysRetry(is_retry) == FALSE
gives_up(is_retry) == is_retry

\* `if user_id not in self.connections` of _get_or_create_connection
NeverTracked(conns, u) == FALSE
tracked(conns, u) == u \in DOMAIN conns

\* A call of post_message_to_server / post_button_click_to_server:
\* attempts counts the runs of the try body (the call and its recursive
\* retry), sends the connections _get_or_create_connection returned to it (on
\* each of which connection.send was called), created the flag returned with
\* each of them.
NewPost(u) ==
    [user |-> u, pc |-> "start", is_retry |-> FALSE,
     attempts |-> 0, sends |-> <<>>, created |-> <<>>, closed |-> 0,
     result |-> "pending"]

\* connection.send(json_message) on connection c by call p, with the call's
\* except clause.  The call is at the await of its send in `ps`; `conns` and
\* `ts` are the registry and the transports at that point.
\* ConnectionClosed on the first attempt pops the user's entry and runs the
\* call again with is_retry=True: its _get_or_create_connection suspends in
\* websockets.connect when the registry has no entry for the user; were an
\* entry left, it would hand that connection back, whose send fails again
\* without suspending and ends the call.
Send(p, c, ps, conns, ts) ==
    LET call == [ps[p] EXCEPT !.sends = Append(@, c)]
        u == call.user
    IN IF ts[c].open
       THEN /\ transports' = [ts EXCEPT ![c].sent = Append(@, p)]
            /\ connections' = conns
            /\ posts' = [ps EXCEPT ![p] = [call EXCEPT !.pc = "done", !.result = "ok"]]
       ELSE /\ transports' = ts
            /\ IF gives_up(call.is_retry)
               THEN /\ connections' = conns
                    /\ posts' = [ps EXCEPT ![p] =
                                   [call EXCEPT !.pc = "done", !.closed = @ + 1,
                                                !.result = "closed"]]
               ELSE LET left == pop(conns, u)
                        again == [call EXCEPT !.closed = @ + 1, !.is_retry = TRUE,
                                              !.attempts = @ + 1]
                    IN /\ connections' = left
                       /\ posts' = [ps EXCEPT ![p] =
                            IF ~tracked(left, u)
                            THEN [again EXCEPT !.pc = "connecting"]
                            ELSE [again EXCEPT !.sends = Append(@, left[u]),
                                               !.created = Append(@, FALSE),
                                               !.pc = "done", !.closed = @ + 1,
                                               !.result = "closed"]]

\* _get_or_create_connection up to its await, and what follows when it does
\* not suspend: a tracked connection is returned and the send is made at once
PostStart(u) ==
    /\ Len(posts) < MaxPosts
    /\ LET p == Len(posts) + 1
           ps == Append(posts, [NewPost(u) EXCEPT !.attempts = 1])
       IN IF ~tracked(connections, u)
          THEN /\ posts' = [ps EXCEPT ![p].pc = "connecting"]
               /\ UNCHANGED <<connections, transports>>
          ELSE Send(p, connections[u], [ps EXCEPT ![p].created = Append(@, FALSE)],
                    connections, transports)
    /\ UNCHANGED <<user_queues, user_tasks, worker, channel, enqueued, handled,
                   failed, serial, menu, budget>>

\* websockets.connect returned: the connection is registered (whatever the
\* registry holds for the user by now), its receive loop is started, and the
\* send is made.  `alive` is whether the peer still holds the connection open
\* when the task resumes.
ConnectReturns(p, alive) ==
    /\ p \in DOMAIN posts
    /\ posts[p].pc = "connecting"
    /\ Len(transports) < MaxConns
    /\ LET c == Len(transports) + 1
           u == posts[p].user
       IN Send(p, c, [posts EXCEPT ![p].created = Append(@, TRUE)],
               Register(connections, u, c),
               Append(transports, NewTransport(u, alive)))
    /\ UNCHANGED <<user_queues, user_tasks, worker, channel, enqueued, handled,
                   failed, serial, menu, budget>>

\* an except clause that took the failure of websockets.connect as it takes
\* ConnectionClosed
ConnectRaisesCaught(p) ==
    /\ p \in DOMAIN posts
    /\ posts[p].pc = "connecting"
    /\ IF gives_up(posts[p].is_retry)
       THEN /\ posts' = [posts EXCEPT ![p].pc = "done", ![p].result = "error"]
            /\ connections' = connections
       ELSE /\ posts' = [posts EXCEPT ![p].is_retry = TRUE, ![p].attempts = @ + 1]
            /\ connections' = pop(connections, posts[p].user)
    /\ UNCHANGED <<user_queues, user_tasks, worker, channel, enqueued, handled,
                   failed, serial, transports, menu, budget>>

\* websockets.connect raised (refused, handshake failure, timeout): not a
\* ConnectionClosed, so the except clause does not apply and the call ends
ConnectRaises(p) ==
    /\ p \in DOMAIN posts
    /\ posts[p].pc = "connecting"
    /\ posts' = [posts EXCEPT ![p].pc = "done", ![p].result = "error"]
    /\ UNCHANGED <<user_queues, user_tasks, worker, channel, enqueued, handled,
                   failed, serial, connections, transports, menu, budget>>

\* connection.send raised an exception that is not ConnectionClosed: the
\* except clause does not apply, the exception leaves the call
SendFails(p, c, ps, conns, ts) ==
    /\ transports' = ts
    /\ connections' = conns
    /\ posts' = [ps EXCEPT ![p] = [@ EXCEPT !.sends = Append(@, c),
                                           !.pc = "done", !.result = "error"]]

\* a call that finds the user's connection tracked and open, and whose send
\* raises such an exception
PostSendRaises(u) ==
    /\ Len(posts) < MaxPosts
    /\ tracked(connections, u)
    /\ transports[connections[u]].open
    /\ LET p == Len(posts) + 1
           ps == Append(posts, [NewPost(u) EXCEPT !.attempts = 1,
                                                  !.created = <<FALSE>>])
       IN SendFails(p, connections[u], ps, connections, transports)
    /\ UNCHANGED <<user_queues, user_tasks, worker, channel, enqueued, handled,
                   failed, serial, menu, budget>>

\* websockets.connect returned, the connection is registered and its receive
\* loop started, and the send on it raises such an exception
ConnectReturnsSendRaises(p) ==
    /\ p \in DOMAIN posts
    /\ posts[p].pc = "connecting"
    /\ Len(transports) < MaxConns
    /\ LET c == Len(transports) + 1
           u == posts[p].user
       IN SendFails(p, c, [posts EXCEPT ![p].created = Append(@, TRUE)],
                    Register(connections, u, c),
                    Append(transports, NewTransport(u, TRUE)))
    /\ UNCHANGED <<user_queues, user_tasks, worker, channel, enqueued, handled,
                   failed, serial, menu, budget>>

\* The two entry points differ only in the serializer they call and in the
\* attribute the user identifier is read from.
post_message_to_server(u) == PostStart(u)

post_button_click_to_server(u) == PostStart(u)

\* the peer or the network closes the transport
TransportCloses(c) ==
    /\ c \in DOMAIN transports
    /\ transports[c].open
    /\ transports' = [transports EXCEPT ![c].open = FALSE]
    /\ UNCHANGED <<user_queues, user_tasks, worker, channel, enqueued, handled,
                   failed, serial, connections, posts, menu, budget>>

\* _on_error: pop the user's entry and re-raise (the task ends with the error)
OnErrorKeeps(conns, u) == conns
on_error(conns, u) == pop(conns, u)

\* _on_close
on_close(conns, u) == pop(conns, u)

\* One iteration of `async for response in connection` of the receive loop of
\* c: json.loads, then add_response_to_queue; a frame json.loads rejects
\* raises inside the try, which `except Exception` hands to _on_error.
Receive(c, frame) ==
    /\ c \in DOMAIN transports
    /\ transports[c].listener = "running"
    /\ transports[c].open
    /\ IF frame = Undecodable
       THEN /\ connections' = on_error(connections, transports[c].user)
            /\ transports' = [transports EXCEPT ![c].listener = "failed"]
            /\ UNCHANGED <<user_queues, user_tasks, worker, enqueued, serial>>
       ELSE /\ serial < budget
            /\ add_response_to_queue(transports[c].user, frame)
            /\ UNCHANGED <<connections, transports>>
    /\ UNCHANGED <<channel, handled, failed, posts, menu, budget>>

\* a receive loop that tore the user's queue and worker down with the entry
ListenerEndsClosingQueue(c) ==
    /\ c \in DOMAIN transports
    /\ transports[c].listener = "running"
    /\ ~transports[c].open
    /\ connections' = pop(connections, transports[c].user)
    /\ transports' = [transports EXCEPT ![c].listener = "closed"]
    /\ user_queues' = close_queue(user_queues, transports[c].user)
    /\ user_tasks' = user_tasks \ {transports[c].user}
    /\ worker' = [worker EXCEPT ![transports[c].user] = Exited("stopped")]
    /\ UNCHANGED <<channel, enqueued, handled, failed, serial, posts, menu, budget>>

\* The iteration over a closed connection ends or raises ConnectionClosed:
\* _on_close runs (once more after the except clause) and the task ends
ListenerEnds(c) ==
    /\ c \in DOMAIN transports
    /\ transports[c].listener = "running"
    /\ ~transports[c].open
    /\ connections' = on_close(on_close(connections, transports[c].user),
                               transports[c].user)
    /\ transports' = [transports EXCEPT ![c].listener = "closed"]
    /\ UNCHANGED <<user_queues, user_tasks, worker, channel, enqueued, handled,
                   failed, serial, posts, menu, budget>>

\* The backend of this run pushes typing indicators, which the worker handles
\* without suspending, and text that is not JSON; the channel calls of the
\* executor are exercised under SpecBase.
Init ==
    /\ InitCommon
    /\ menu = {PlainEnv("start_typing"), Undecodable}
    /\ budget = MaxFrames

Next ==
    \/ \E u \in Users : post_message_to_server(u)
    \/ \E u \in Users : post_button_click_to_server(u)
    \/ \E p \in 1..MaxPosts : \E alive \in BOOLEAN : ConnectReturns(p, alive)
    \/ \E p \in 1..MaxPosts : ConnectRaises(p)
    \/ \E c \in 1..MaxConns : TransportCloses(c)
    \/ \E c \in 1..MaxConns : \E frame \in menu : Receive(c, frame)
    \/ \E c \in 1..MaxConns : ListenerEnds(c)
    \/ \E u \in Users : WorkerGet(u)

Spec == Init /\ [][Next]_vars

\* The runs in which connection.send may also raise an exception that is not
\* ConnectionClosed; the backend pushes only text that is not JSON, so no
\* queue is created.
InitSend ==
    /\ InitCommon
    /\ menu = {Undecodable}
    /\ budget = 0

NextSend ==
    \/ \E u \in Users : post_message_to_server(u)
    \/ \E u \in Users : post_button_click_to_server(u)
    \/ \E p \in 1..MaxPosts : \E alive \in BOOLEAN : ConnectReturns(p, alive)
    \/ \E p \in 1..MaxPosts : ConnectRaises(p)
    \/ \E u \in Users : PostSendRaises(u)
    \/ \E p \in 1..MaxPosts : ConnectReturnsSendRaises(p)
    \/ \E c \in 1..MaxConns : TransportCloses(c)
    \/ \E c \in 1..MaxConns : \E frame \in menu : Receive(c, frame)
    \/ \E c \in 1..MaxConns : ListenerEnds(c)

SpecSend == InitSend /\ [][NextSend]_vars


\* ------------------------------------------------------------- APIService
MaxList == 2        \* most instructions in the list of one response

\* the lists of at most n envelopes the backend can answer with
RECURSIVE Lists(_)
Lists(n) ==
    IF n = 0 THEN {<<>>}
    ELSE Lists(n - 1) \cup
         {Append(l, env) : l \in {x \in Lists(n - 1) : Len(x) = n - 1}, env \in menu}

\* `for task in response`: the order in which the list is walked
IterateBackwards(response) ==
    [i \in 1..Len(response) |-> response[Len(response) + 1 - i]]
iterate(response) == response

\* for task in response: await self.add_response_to_queue(user, task)
\* (no call of the loop suspends)
RECURSIVE feed(_, _, _)
feed(st, u, tasks) ==
    IF tasks = <<>> THEN st ELSE feed(put(st, u, Head(tasks)), u, Tail(tasks))

\* A call of APIService.post_message_to_server / post_button_click_to_server:
\* response is the list the backend returned, n0 the number of instructions
\* enqueued before the call fed its list.
NewRequest(u) ==
    [user |-> u, pc |-> "request", result |-> "pending", response |-> <<>>,
     n0 |-> 0]

\* serialize_*, then `await self.post(...)` suspends in the HTTP request
RequestStart(u) ==
    /\ Len(posts) < MaxPosts
    /\ posts' = Append(posts, NewRequest(u))
    /\ UNCHANGED <<user_queues, user_tasks, worker, channel, enqueued, handled,
                   failed, serial, connections, transports, menu, budget>>

api_post_message_to_server(u) == RequestStart(u)

api_post_button_click_to_server(u) == RequestStart(u)

\* the request returned a 2xx status with a JSON list: the list is fed to the
\* queue of the event's user (the run ends once `budget` instructions were fed)
RequestReturns(p, response) ==
    /\ p \in DOMAIN posts
    /\ posts[p].pc = "request"
    /\ serial + Len(response) <= budget
    /\ posts' = [posts EXCEPT ![p].pc = "done", ![p].result = "ok",
                              ![p].response = response, ![p].n0 = serial]
    /\ Becomes(feed(BaseState, posts[p].user, iterate(response)))
    /\ UNCHANGED <<channel, handled, failed, connections, transports, menu, budget>>

\* the request raised (transport error, timeout) or raise_for_status did
RequestRaises(p) ==
    /\ p \in DOMAIN posts
    /\ posts[p].pc = "request"
    /\ posts' = [posts EXCEPT ![p].pc = "done", ![p].result = "error"]
    /\ UNCHANGED <<user_queues, user_tasks, worker, channel, enqueued, handled,
                   failed, serial, connections, transports, menu, budget>>

\* The backend of this run answers with lists of the two typing indicators,
\* which the worker handles without suspending.
InitAPI ==
    /\ InitCommon
    /\ menu = {PlainEnv("start_typing"), PlainEnv("stop_typing")}
    /\ budget = MaxPosts + MaxList

NextAPI ==
    \/ \E u \in Users : api_post_message_to_server(u)
    \/ \E u \in Users : api_post_button_click_to_server(u)
    \/ \E p \in 1..MaxPosts : \E response \in Lists(MaxList) : RequestReturns(p, response)
    \/ \E p \in 1..MaxPosts : RequestRaises(p)
    \/ \E u \in Users : WorkerGet(u)

SpecAPI == InitAPI /\ [][NextAPI]_vars


\* --------------------------------------------------------- EventSerializer
\* enums.py
Events ==
    [MESSAGE |-> "message", BUTTON_CLICK |-> "button_click",
     MEMBER_JOIN |-> "member_join", MEMBER_UPDATE |-> "member_update"]

ChannelTypes == [DM |-> "dm", CHANNEL |-> "channel"]

None == "None"

\* pywa Message objects: text, from_user.wa_id, from_user.name
Messages == [text : {"hi", "yes"}, wa_id : Users, name : {"Ann", "Bob"}]

\* pywa CallbackButton[ButtonData] objects: data.id, data.custom_id, from_user
Clicks == [id : {1, 2}, custom_id : {"ok"}, wa_id : Users, name : {"Ann", "Bob"}]

\* a serializer that takes the channel's platform id from the display name
SerializeMessageByName(message) ==
    [action |-> Events.MESSAGE,
     content |-> [content |-> message.text,
                  author |-> [platform_id |-> [id |-> message.wa_id],
                              username |-> message.name, guild |-> None],
                  channel |-> [platform_id |-> [id |-> message.name],
                               name |-> message.name, type |-> ChannelTypes.DM,
                               guild |-> None]]]

serialize_message(message) ==
    [action |-> Events.MESSAGE,
     content |-> [content |-> message.text,
                  author |-> [platform_id |-> [id |-> message.wa_id],
                              username |-> message.name, guild |-> None],
                  channel |-> [platform_id |-> [id |-> message.wa_id],
                               name |-> message.name, type |-> ChannelTypes.DM,
                               guild |-> None]]]

serialize_button_click(callback_data) ==
    [action |-> Events.BUTTON_CLICK,
     content |-> [id |-> callback_data.id,
                  custom_id |-> callback_data.custom_id,
                  user |-> [platform_id |-> [id |-> callback_data.wa_id],
                            username |-> callback_data.name, guild |-> None],
                  channel |-> [platform_id |-> [id |-> callback_data.wa_id],
                               name |-> callback_data.name,
                               type |-> ChannelTypes.DM, guild |-> None]]]

\* one outbound event of a service: the event and the envelope the service
\* hands to its transport (json.dumps for the socket, json= for the request)
Outbound(service, kind, event, payload) ==
    [service |-> service, kind |-> kind, event |-> event, payload |-> payload]

Serialized(out) ==
    /\ Len(posts) < MaxPosts
    /\ posts' = Append(posts, out)
    /\ UNCHANGED <<user_queues, user_tasks, worker, channel, enqueued, handled,
                   failed, serial, connections, transports, menu, budget>>

\* json_message = json.dumps(self.serialize_message(message))
SocketSerializesMessage(message) ==
    Serialized(Outbound("websocket", "message", message, serialize_message(message)))

\* json_message = json.dumps(self.serialize_button_click(button_data))
SocketSerializesClick(click) ==
    Serialized(Outbound("websocket", "click", click, serialize_button_click(click)))

\* payload = self.serialize_message(message)
RequestSerializesMessage(message) ==
    Serialized(Outbound("api", "message", message, serialize_message(message)))

\* payload = self.serialize_button_click(button_data)
RequestSerializesClick(click) ==
    Serialized(Outbound("api", "click", click, serialize_button_click(click)))

InitSerializer ==
    /\ InitCommon
    /\ menu = {}
    /\ budget = 0

NextSerializer ==
    \/ \E message \in Messages : SocketSerializesMessage(message)
    \/ \E click \in Clicks : SocketSerializesClick(click)
    \/ \E message \in Messages : RequestSerializesMessage(message)
    \/ \E click \in Clicks : RequestSerializesClick(click)

SpecSerializer == InitSerializer /\ [][NextSerializer]_vars


\* ======================================================================
\* Properties
\* ======================================================================
Resolved == {"confirmed", "timeout", "failed"}

\* the channel calls made for instruction n of user u, in order
CallsOf(u, n) == SelectSeq(channel[u], LAMBDA call : call.of = n)

RECURSIVE Flatten(_)
Flatten(ss) == IF ss = <<>> THEN <<>> ELSE Head(ss) \o Flatten(Tail(ss))

Range(s) == {s[i] : i \in DOMAIN s}

OpenOf(u) == {c \in DOMAIN transports : transports[c].user = u /\ transports[c].open}

\* C1: in every reachable state each user has at most one open transport
\* connection (and so at most one receive loop reading an open connection),
\* also when calls of _get_or_create_connection for the user overlap.
C1_OneOpenConnectionPerUser ==
    \A u \in Users : Cardinality(OpenOf(u)) <= 1

\* what holds of every call of post_*_to_server in every state
C2_Bounded ==
    \A p \in DOMAIN posts :
        LET call == posts[p]
        IN /\ call.attempts <= 2
           /\ Len(call.sends) <= call.attempts
           /\ call.is_retry <=> call.attempts = 2
           /\ call.attempts = 2 => call.closed >= 1
           /\ (call.pc = "done" /\ call.closed >= 1) => call.attempts = 2
           /\ call.result = "closed" <=> call.closed = 2
           /\ call.closed = 2 => call.pc = "done"
           /\ Len(call.sends) = 2 =>
                 /\ call.sends[2] > call.sends[1]
                 /\ ~transports[call.sends[1]].open

\* the step in which the first send of a call fails with a closed transport
C2_PopOnFirstFailure ==
    \A p \in DOMAIN posts' :
        (posts'[p].closed = 1 /\ (p \notin DOMAIN posts \/ posts[p].closed = 0))
            => /\ posts'[p].user \notin DOMAIN connections'
               /\ posts'[p].pc = "connecting"
               /\ posts'[p].is_retry

\* C2: one call of post_*_to_server runs its try body at most twice and calls
\* connection.send at most twice; the second run happens exactly after a
\* closed-transport failure of the first, on a connection opened after the one
\* that failed; a closed-transport failure of the second run ends the call with
\* that error; and the step in which the first send fails leaves no registry
\* entry for the user.
C2_RetryExactlyOnce == [](C2_Bounded) /\ [][C2_PopOnFirstFailure]_vars

\* C2 witness: a call whose retry also failed with a closed transport
C2_Witness ==
    \E p \in DOMAIN posts :
        posts[p].result = "closed" /\ posts[p].attempts = 2 /\ Len(posts[p].sends) = 2

\* C3: for every user the instructions handed to _handle_response are, in
\* order and without repetition or gap, the first ones add_response_to_queue
\* enqueued for that user.
C3_FifoPerUser == \A u \in Users : IsPrefix(handled[u], enqueued[u])

\* C3 witness: two instructions of one user were handled while the other
\* user's worker was busy
C3_Witness ==
    \E u \in Users : \E v \in Users \ {u} :
        Len(handled[u]) = 2 /\ worker[v].pc \in {"sending", "ack"}

\* C4: for every user only the newest channel call can be unresolved, it
\* belongs to the one instruction the worker is on, and the calls of one
\* instruction are never interleaved with those of another: a send never
\* starts before the previous call's ack wait ended.
C4_OneInstructionAtATime ==
    \A u \in Users :
        /\ \A i \in 1..Len(channel[u]) :
              channel[u][i].status \notin Resolved
                  => /\ i = Len(channel[u])
                     /\ worker[u].pc \in {"sending", "ack"}
                     /\ worker[u].n = channel[u][i].of
        /\ \A i \in 1..Len(channel[u]) : \A j \in i..Len(channel[u]) :
              channel[u][i].of <= channel[u][j].of
        /\ worker[u].pc \in {"sending", "ack"} =>
              /\ channel[u] # <<>>
              /\ Last(channel[u]).of = worker[u].n
              /\ Last(channel[u]).status = (IF worker[u].pc = "ack" THEN "waiting" ELSE "sending")

\* C4 witness: the send of the second instruction of a user has started, after
\* an ack wait of the first one ended by timeout, with a third one queued
C4_Witness ==
    \E u \in Users :
        /\ Len(handled[u]) = 2
        /\ worker[u].pc = "sending"
        /\ worker[u].n = handled[u][2].n
        /\ Len(channel[u]) >= 2
        /\ channel[u][1].of = handled[u][1].n
        /\ \E i \in 1..Len(channel[u]) : channel[u][i].status = "timeout"
        /\ Len(user_queues[u]) > 0

\* C5: the step in which a worker handles a stop_process instruction removes
\* the user from user_queues and user_tasks and ends the worker loop.
C5_StopProcessEndsWorker ==
    [][\A u \in Users :
          (Len(handled'[u]) > Len(handled[u])
             /\ Last(handled'[u]).env.action = "stop_process")
          => /\ u \notin DOMAIN user_queues'
             /\ u \notin user_tasks'
             /\ worker'[u].pc = "stopped"]_vars

\* an instruction of user u the worker is done with, none of whose calls raised
Finished(u, item) == worker[u].n # item.n
Sendable(env) ==
    /\ env.valid
    /\ env.action \in {"message", "image"}
    /\ ~(env.action = "image" /\ EndsWith(env.image, GifExt))
ExpectedSends(n) == IF n <= 3 THEN 1 ELSE (n + 2) \div 3

\* C6: a Message or Image (not .gif) action with n choices makes 1 channel
\* call when n <= 3 and ceil(n/3) when n > 3 once all its ack waits were
\* confirmed; the first call carries the action's content (the text, or the
\* image with its caption) and choices 1..3, every later call is a text call
\* with EMPTY_MESSAGE_CONTENT and the next up to 3 choices; the groups
\* concatenated are the original choices; a call starts only after the ack of
\* the previous one was confirmed.
C6_Batching ==
    \A u \in Users : \A k \in 1..Len(handled[u]) :
        LET item == handled[u][k]
            env == item.env
            n == Len(env.buttons)
            calls == CallsOf(u, item.n)
        IN Sendable(env) =>
            /\ \A i \in 1..Len(calls) :
                  /\ i < Len(calls) => calls[i].status = "confirmed"
                  /\ Len(calls[i].buttons) = Min(3, n - 3 * (i - 1))
                  /\ \A j \in 1..Len(calls[i].buttons) :
                        calls[i].buttons[j].callback_data = env.buttons[3 * (i - 1) + j].id
                  /\ i = 1 /\ env.action = "message" =>
                        /\ calls[i].kind = "text"
                        /\ calls[i].text = (IF env.message = "" THEN "_" ELSE env.message)
                  /\ i = 1 /\ env.action = "image" =>
                        /\ calls[i].kind = "image"
                        /\ calls[i].image = env.image
                        /\ calls[i].caption = env.caption
                  /\ i > 1 => calls[i].kind = "text" /\ calls[i].text = "_"
            /\ Len(calls) >= 1
            /\ (Finished(u, item) /\ \A i \in 1..Len(calls) : calls[i].status = "confirmed")
                  => /\ Len(calls) = ExpectedSends(n)
                     /\ Len(Flatten([i \in 1..Len(calls) |-> calls[i].buttons])) = n

\* C6 witness: an image with 7 choices and a caption was delivered in 3 calls
C6_Witness ==
    \E u \in Users : \E k \in 1..Len(handled[u]) :
        LET item == handled[u][k]
            calls == CallsOf(u, item.n)
        IN /\ item.env.action = "image"
           /\ Sendable(item.env)
           /\ Len(item.env.buttons) = 7
           /\ Finished(u, item)
           /\ Len(calls) = 3
           /\ \A i \in 1..3 : calls[i].status = "confirmed"

QueuedSerials(u) ==
    IF u \in DOMAIN user_queues THEN {user_queues[u][i].n : i \in DOMAIN user_queues[u]}
    ELSE {}

C8_TimeoutNotFatal ==
    \A u \in Users : \A i \in 1..Len(channel[u]) :
        channel[u][i].status = "timeout"
            => /\ worker[u].pc \in {"get", "sending", "ack"}
               /\ worker[u].n # channel[u][i].of
               /\ u \in user_tasks
               /\ u \in DOMAIN user_queues

\* C8 witness: a call of a later instruction follows a call that timed out
C8_Witness ==
    \E u \in Users :
        /\ Len(channel[u]) >= 2
        /\ channel[u][1].status = "timeout"
        /\ channel[u][2].of > channel[u][1].of

\* C9: an ack timeout counts as a success of the send: an action with more
\* than 3 choices none of whose sends raised still makes all its ceil(n/3)
\* calls, whatever ack waits timed out.
C9_TimeoutKeepsGroups ==
    \A u \in Users : \A k \in 1..Len(handled[u]) :
        LET item == handled[u][k]
            n == Len(item.env.buttons)
            calls == CallsOf(u, item.n)
        IN (/\ Sendable(item.env)
            /\ n > 3
            /\ Finished(u, item)
            /\ \A i \in 1..Len(calls) : calls[i].status # "failed")
           => Len(calls) = ExpectedSends(n)

\* C10: a frame that cannot be decoded does not end the receive loop of its
\* connection (the loop ends only with its transport) and does not remove the
\* connection from the registry.
C10_DecodeFailureKeepsLoop ==
    \A c \in DOMAIN transports : transports[c].listener # "failed"

\* an Image instruction whose resource path ends in .gif
IsGif(env) == env.action = "image" /\ env.valid /\ EndsWith(env.image, GifExt)

\* C11: for an Image instruction whose path ends in .gif the channel gets
\* exactly one call, a sticker send of the path with the extension replaced by
\* .webp: no image send is made for it and no call carries its caption or
\* its buttons.
C11_GifStickerOnly ==
    \A u \in Users : \A k \in 1..Len(handled[u]) :
        LET item == handled[u][k]
            calls == CallsOf(u, item.n)
        IN IsGif(item.env) =>
            /\ Len(calls) = 1
            /\ calls[1].kind = "sticker"
            /\ calls[1].image = ToWebp(item.env.image)
            /\ calls[1].caption = ""
            /\ calls[1].buttons = <<>>

\* the connections a call opened
Opened(call) == {i \in 1..Len(call.created) : call.created[i]}

\* a call whose first _get_or_create_connection returned the tracked connection
\* and whose send on it failed because its transport had closed
FoundClosed(call) ==
    Len(call.created) >= 1 /\ ~call.created[1] /\ call.closed >= 1

C12_Reconnects ==
    \A q \in DOMAIN posts :
        LET call == posts[q]
        IN /\ FoundClosed(call) =>
                /\ ~transports[call.sends[1]].open
                /\ call.attempts = 2
                /\ Len(call.sends) = 2 =>
                      /\ call.created = <<FALSE, TRUE>>
                      /\ call.sends[2] > call.sends[1]
                      /\ transports[call.sends[2]].user = call.user
                /\ call.result = "ok" => Cardinality(Opened(call)) = 1
           /\ (call.result = "ok" /\ call.closed = 0) => Cardinality(Opened(call)) <= 1

\* the step in which a call returns to its caller after a reconnection
C12_Returns ==
    \A q \in DOMAIN posts :
        (posts[q].pc = "connecting" /\ posts'[q].pc = "done"
            /\ Len(posts'[q].sends) > Len(posts[q].sends)) =>
            LET c == Last(posts'[q].sends)
            IN /\ c \notin DOMAIN transports
               /\ transports'[c].listener = "running"
               /\ transports'[c].open => /\ posts'[q].result = "ok"
                                         /\ tracked(connections', posts'[q].user)
                                         /\ connections'[posts'[q].user] = c
                                         /\ Last(transports'[c].sent) = q

ConnectionGoes ==
    \/ \E u \in DOMAIN connections :
          ~tracked(connections', u) \/ connections'[u] # connections[u]
    \/ \E c \in DOMAIN transports :
          \/ transports[c].open /\ ~transports'[c].open
          \/ transports[c].listener = "running" /\ transports'[c].listener # "running"

C13_Frame ==
    ConnectionGoes =>
        /\ user_queues' = user_queues
        /\ user_tasks' = user_tasks
        /\ worker' = worker
        /\ handled' = handled

\* a user one of whose connections closed, failed or lost its receive loop
LostConnection(u) ==
    \E c \in DOMAIN transports :
        /\ transports[c].user = u
        /\ ~transports[c].open \/ transports[c].listener # "running"

C13_WorkerGoesOn ==
    \A u \in Users :
        (LostConnection(u) /\ enqueued[u] # <<>>) =>
            /\ u \in DOMAIN user_queues
            /\ u \in user_tasks
            /\ worker[u].pc \in {"get", "sending", "ack"}
            /\ enqueued[u] = handled[u] \o user_queues[u]
            /\ (worker[u].pc = "get" /\ user_queues[u] # <<>>) => ENABLED WorkerGet(u)

\* C13: a step in which a connection closes, fails, ends its receive loop or
\* leaves the registry (_on_close, _on_error, the pop of the retry path)
\* changes neither user_queues nor user_tasks nor any worker; a user who lost a
\* connection keeps the queue with its pending instructions and a running
\* worker that can take the next of them.
C13_CloseLeavesQueues == [](C13_WorkerGoesOn) /\ [][C13_Frame]_vars

\* C13 witness: the receive loop of a user's connection ended and removed the
\* entry while an instruction of that user was pending, with the worker at
\* queue.get
C13_Witness ==
    \E c \in DOMAIN transports :
        LET u == transports[c].user
        IN /\ transports[c].listener \in {"closed", "failed"}
           /\ ~tracked(connections, u)
           /\ u \in DOMAIN user_queues
           /\ Len(user_queues[u]) > 0
           /\ worker[u].pc = "get"
           /\ ENABLED WorkerGet(u)

\* the receive loop of c has ended: its task is finished
LoopEnded(c) == transports[c].listener \in {"closed", "failed"}

C14_Untracked ==
    \A c \in DOMAIN transports :
        LoopEnded(c) => \A u \in DOMAIN connections : connections[u] # c

\* the step in which a receive loop ends touches no other task
C14_Contained ==
    \A c \in DOMAIN transports :
        (transports[c].listener = "running" /\ transports'[c].listener # "running") =>
            /\ \A d \in DOMAIN transports \ {c} : transports'[d] = transports[d]
            /\ \A u \in DOMAIN connections' : connections'[u] # c
            /\ worker' = worker
            /\ user_queues' = user_queues
            /\ user_tasks' = user_tasks
            /\ posts' = posts

\* C14: once the receive loop of a connection has ended (end of the frame
\* stream, ConnectionClosed, or another exception handed to _on_error) the
\* registry does not track that connection, and the step in which it ends
\* changes no other receive loop, no worker, no queue and no outbound call.
C14_LoopEndUntracks == [](C14_Untracked) /\ [][C14_Contained]_vars

\* C14 witness: the receive loop of one user ended with an exception and left
\* the registry while another user's loop is reading an open connection
C14_Witness ==
    \E c \in DOMAIN transports : \E d \in DOMAIN transports :
        /\ transports[c].listener = "failed"
        /\ ~tracked(connections, transports[c].user)
        /\ transports[d].user # transports[c].user
        /\ transports[d].listener = "running"
        /\ transports[d].open
        /\ tracked(connections, transports[d].user)
        /\ connections[transports[d].user] = d

\* tags whose handler does nothing
NoOps == {ResponseTypes.ADD_ROLE, ResponseTypes.REMOVE_ROLE,
          ResponseTypes.START_TYPING, ResponseTypes.STOP_TYPING}

\* C15: a schema-valid AddRole, RemoveRole, StartTyping or StopTyping
\* instruction the worker took makes no channel call and is not logged by the
\* except branch of _process_queue, and the worker is back at queue.get or on
\* a later instruction.
C15_NoOpsAccepted ==
    \A u \in Users : \A k \in 1..Len(handled[u]) :
        LET item == handled[u][k]
        IN (item.env.action \in NoOps /\ item.env.valid) =>
              /\ CallsOf(u, item.n) = <<>>
              /\ item.n \notin Range(failed[u])
              /\ worker[u].pc \in {"get", "sending", "ack"}
              /\ worker[u].n # item.n

Running == {"get", "sending", "ack"}

C16_SameKeys ==
    /\ DOMAIN user_queues = user_tasks
    /\ \A u \in Users :
          /\ u \in user_tasks <=> worker[u].pc \in Running
          /\ u \in DOMAIN user_queues =>
                enqueued[u] = handled[u] \o user_queues[u]

\* the step of an add_response_to_queue call for user u
C16_GetOrCreate ==
    \A u \in Users :
        Len(enqueued'[u]) > Len(enqueued[u]) =>
            LET item == Last(enqueued'[u])
            IN IF u \in DOMAIN user_queues
               THEN /\ user_queues'[u] = Append(user_queues[u], item)
                    /\ worker'[u] = worker[u]
                    /\ user_tasks' = user_tasks
               ELSE /\ worker[u].pc \notin Running
                    /\ user_queues'[u] = <<item>>
                    /\ worker'[u] = Idle
                    /\ user_tasks' = user_tasks \cup {u}

\* C16: user_queues and user_tasks have the same keys in every state, a user
\* has a running worker exactly when it has a key, and that worker takes its
\* instructions from the queue mapped for the user; a call of
\* add_response_to_queue creates a queue and a worker only for a user that has
\* neither, and otherwise appends to the mapped queue and starts nothing, so
\* calls that follow each other before the worker ran create one queue and one
\* worker.
C16_QueuesAndTasks == [](C16_SameKeys) /\ [][C16_GetOrCreate]_vars

\* C16 witness: two calls for a user without queue were made before its worker
\* ran, and the other user has a queue and a worker of its own
C16_Witness ==
    \E u \in Users : \E v \in Users \ {u} :
        /\ u \in DOMAIN user_queues
        /\ Len(user_queues[u]) = 2
        /\ handled[u] = <<>>
        /\ worker[u] = Idle
        /\ v \in user_tasks
        /\ Len(handled[v]) = 1

\* call p wrote its frame in this step
SentNow(p) ==
    /\ p \in DOMAIN posts'
    /\ posts'[p].result = "ok"
    /\ p \in DOMAIN posts => posts[p].result # "ok"

\* C17: the frames of a user's calls are written in the order in which the
\* calls were started: a call that never retried does not write its frame
\* after the frame of a call of the same user that was started later.
C17_OutboundOrder ==
    [][\A p \in DOMAIN posts : \A q \in DOMAIN posts :
          (/\ p < q
           /\ posts[p].user = posts[q].user
           /\ posts[q].result = "ok"
           /\ posts[p].attempts = 1
           /\ posts[q].attempts = 1)
          => ~(SentNow(p) /\ posts'[p].attempts = 1)]_vars

\* C18: in the step in which the ConnectionClosed of the second attempt of a
\* call is raised to the caller, the registry is left without a connection
\* for the call's user.
C18_UntrackedOnGiveUp ==
    [][\A p \in DOMAIN posts' :
          (posts'[p].result = "closed"
             /\ (p \notin DOMAIN posts \/ posts[p].result # "closed"))
          => ~tracked(connections', posts'[p].user)]_vars

\* how many times _get_or_create_connection had returned to call p before
\* this step
GotBefore(p) == IF p \in DOMAIN posts THEN Len(posts[p].created) ELSE 0

\* _get_or_create_connection returned to call p in this step
GotNow(p) == p \in DOMAIN posts' /\ Len(posts'[p].created) > GotBefore(p)

\* the step in which a call is started: its _get_or_create_connection returns
\* at once when a connection is tracked and suspends in websockets.connect
\* when none is
C19_Lookup ==
    \A p \in DOMAIN posts' \ DOMAIN posts :
        LET u == posts'[p].user
        IN IF u \in DOMAIN connections
           THEN /\ GotNow(p)
                /\ posts'[p].sends[1] = connections[u]
                /\ posts'[p].created[1] = FALSE
                /\ Len(transports') = Len(transports)
                /\ \A d \in DOMAIN transports :
                      transports'[d].listener = transports[d].listener
           ELSE /\ posts'[p].pc = "connecting"
                /\ posts'[p].sends = <<>>
                /\ transports' = transports
                /\ connections' = connections

\* the step in which a suspended call resumes from websockets.connect
C19_Create ==
    \A p \in DOMAIN posts :
        GotNow(p) =>
            LET u == posts[p].user
                c == posts'[p].sends[GotBefore(p) + 1]
            IN /\ posts[p].pc = "connecting"
               /\ posts'[p].created[GotBefore(p) + 1] = TRUE
               /\ Len(posts'[p].created) = GotBefore(p) + 1
               /\ c \notin DOMAIN transports
               /\ Len(transports') = Len(transports) + 1
               /\ transports'[c].user = u
               /\ transports'[c].listener = "running"
               /\ \A d \in DOMAIN transports :
                     transports'[d].listener = transports[d].listener
               /\ \/ u \in DOMAIN connections' /\ connections'[u] = c
                  \/ ~transports'[c].open /\ ~posts[p].is_retry

\* the registry takes a connection only in the step that opens it
C19_NeverBack ==
    \A u \in DOMAIN connections' :
        (u \notin DOMAIN connections \/ connections[u] # connections'[u])
            => connections'[u] \notin DOMAIN transports

\* every connection handed to a call belongs to the call's user
C19_State ==
    \A p \in DOMAIN posts :
        /\ Len(posts[p].sends) = Len(posts[p].created)
        /\ \A i \in 1..Len(posts[p].sends) :
              transports[posts[p].sends[i]].user = posts[p].user

\* C19: a call of _get_or_create_connection that finds a connection tracked
\* for the user returns that connection with created = false, opens no
\* transport connection and starts no receive loop; one that finds none opens
\* exactly one connection, registers it, starts one receive loop bound to it
\* and returns it with created = true; the registry never takes back a
\* connection that left it, so a removed connection is not returned again.
C19_GetOrCreate ==
    [](C19_State) /\ [][C19_Lookup /\ C19_Create /\ C19_NeverBack]_vars

\* C19 witness: a call created a connection, a later call of the user was
\* handed that same connection with created = false and sent on it, and the
\* connection was then removed by its receive loop
C19_Witness ==
    \E p \in DOMAIN posts : \E q \in DOMAIN posts :
        /\ p < q
        /\ posts[p].user = posts[q].user
        /\ posts[p].created = <<TRUE>>
        /\ posts[q].created = <<FALSE>>
        /\ posts[q].sends = posts[p].sends
        /\ transports[posts[p].sends[1]].sent = <<p, q>>
        /\ transports[posts[p].sends[1]].listener = "closed"
        /\ posts[p].user \notin DOMAIN connections
        /\ Len(transports) = 1

\* the instructions enqueued for user u with a serial in lo+1..hi, in queue order
EnqueuedBetween(u, lo, hi) ==
    SelectSeq(enqueued[u], LAMBDA item : item.n > lo /\ item.n <= hi)

\* C20: the instructions of the list returned for one outbound event are in
\* the user's queue one after the other in list order, also when calls of the
\* user overlap, and the worker takes the user's instructions in queue order.
C20_ListOrder ==
    /\ \A p \in DOMAIN posts :
          posts[p].result = "ok" =>
              LET got == EnqueuedBetween(posts[p].user, posts[p].n0,
                                         posts[p].n0 + Len(posts[p].response))
              IN /\ Len(got) = Len(posts[p].response)
                 /\ \A i \in 1..Len(got) :
                       /\ got[i].env = posts[p].response[i]
                       /\ got[i].n = posts[p].n0 + i
    /\ \A u \in Users :
          /\ IsPrefix(handled[u], enqueued[u])
          /\ \A i \in 1..Len(enqueued[u]) : \A j \in 1..Len(enqueued[u]) :
                i < j => enqueued[u][i].n < enqueued[u][j].n

\* C20 witness: two overlapping calls of one user, the later one answered
\* first, each with a list of two different instructions, all four handled
C20_Witness ==
    \E p \in DOMAIN posts : \E q \in DOMAIN posts :
        /\ p < q
        /\ posts[p].user = posts[q].user
        /\ posts[p].result = "ok"
        /\ posts[q].result = "ok"
        /\ posts[q].n0 < posts[p].n0
        /\ Len(posts[p].response) = 2
        /\ Len(posts[q].response) = 2
        /\ posts[p].response[1] # posts[p].response[2]
        /\ posts[q].response[1] # posts[q].response[2]
        /\ Len(handled[posts[p].user]) = 4

\* everything the service holds for user u: queue, task, worker position,
\* channel calls, histories, registry entry and transport connections
UserState(u) ==
    [queue |-> IF u \in DOMAIN user_queues THEN <<user_queues[u]>> ELSE <<>>,
     task |-> u \in user_tasks,
     worker |-> worker[u],
     channel |-> channel[u],
     enqueued |-> enqueued[u],
     handled |-> handled[u],
     failed |-> failed[u],
     connection |-> IF u \in DOMAIN connections THEN <<connections[u]>> ELSE <<>>,
     transports |-> {<<c, transports[c]>> : c \in {d \in DOMAIN transports :
                                                      transports[d].user = u}}]

\* a worker is never held up by the worker of another user
C21_CanGo ==
    \A v \in Users :
        /\ (worker[v].pc = "get" /\ v \in DOMAIN user_queues /\ user_queues[v] # <<>>)
              => ENABLED WorkerGet(v)
        /\ worker[v].pc = "sending" => ENABLED SendReturns(v)
        /\ worker[v].pc = "ack" => ENABLED AckConfirmed(v) /\ ENABLED AckTimeout(v)

\* no step changes what is held for two users
C21_Frame ==
    \A u \in Users : \A v \in Users \ {u} :
        UserState(v)' # UserState(v) => UserState(u)' = UserState(u)

\* C21: whatever the worker of user A is doing (blocked in an ack wait, back
\* from a failed instruction), the worker of user B can take B's next
\* instruction and go on with the one it is on; and a step that changes what
\* the service holds for B changes nothing of what it holds for A.
C21_WorkersIndependent == [](C21_CanGo) /\ [][C21_Frame]_vars

\* C21 witness: A is in the ack wait of its first instruction, the first one
\* enqueued at all, while B has had an instruction fail and is on its next one
C21_Witness ==
    \E u \in Users : \E v \in Users \ {u} :
        /\ worker[u].pc = "ack"
        /\ Len(handled[u]) = 1
        /\ handled[u][1].n = 1
        /\ Len(handled[v]) = 2
        /\ handled[v][1].n \in Range(failed[v])
        /\ worker[v].pc = "sending"
        /\ worker[v].n = handled[v][2].n

\* the tags of the instruction taxonomy
KnownTags == Validated \cup {"stop_process"}

\* an instruction whose payload does not validate against the schema of its
\* tag, or whose tag is not a known one
Malformed(env) ==
    \/ env.action \in Validated /\ ~env.valid
    \/ env.action \notin KnownTags

\* C22: a malformed instruction the worker took has made no channel call, is
\* neither in the queue again nor handed over twice, and the worker is alive
\* and no longer on it: it is back at queue.get, able to take the next
\* instruction of the user, or already on a later one.
C22_MalformedDropped ==
    \A u \in Users : \A k \in 1..Len(handled[u]) :
        LET item == handled[u][k]
        IN Malformed(item.env) =>
              /\ CallsOf(u, item.n) = <<>>
              /\ item.n \notin QueuedSerials(u)
              /\ \A j \in 1..Len(handled[u]) : handled[u][j].n = item.n => j = k
              /\ u \in user_tasks
              /\ worker[u].pc \in {"get", "sending", "ack"}
              /\ worker[u].n # item.n
              /\ (worker[u].pc = "get" /\ user_queues[u] # <<>>) => ENABLED WorkerGet(u)

\* C22 witness: a message whose payload does not validate was dropped and the
\* next instruction of the user, a valid message, has had its send confirmed
C22_Witness ==
    \E u \in Users :
        /\ Len(handled[u]) = 2
        /\ handled[u][1].env = InvalidEnv("message")
        /\ handled[u][1].n \in Range(failed[u])
        /\ CallsOf(u, handled[u][1].n) = <<>>
        /\ Len(channel[u]) = 1
        /\ channel[u][1].of = handled[u][2].n
        /\ channel[u][1].status = "confirmed"

C23_Idempotent ==
    \A u \in Users :
        LET once == on_close(connections, u)
        IN /\ on_close(once, u) = once
           /\ u \notin DOMAIN connections => once = connections
           /\ DOMAIN once = DOMAIN connections \ {u}
           /\ \A v \in DOMAIN once : once[v] = connections[v]

\* the step in which a receive loop ends on a closed connection, where
\* _on_close runs twice
C23_TwiceIsOnce ==
    \A c \in DOMAIN transports :
        (transports[c].listener = "running" /\ transports'[c].listener = "closed")
            => connections' = on_close(connections, transports[c].user)

\* C23: removing a user's connection from the registry when none is tracked
\* changes nothing, removing leaves every other user's entry as it was, and
\* removing twice in a row gives the registry that removing once gives: the
\* receive loop that runs _on_close twice leaves the registry a single
\* _on_close would leave.
C23_RemoveIdempotent == [](C23_Idempotent) /\ [][C23_TwiceIsOnce]_vars

\* C23 witness: the receive loop of a closed connection ended, with its two
\* removals, after the retry path of a call had already removed the user's
\* entry, while the other user's connection stays tracked
C23_Witness ==
    \E c \in DOMAIN transports : \E d \in DOMAIN transports :
        /\ transports[c].listener = "closed"
        /\ transports[c].user \notin DOMAIN connections
        /\ \E p \in DOMAIN posts : posts[p].closed >= 1 /\ posts[p].sends[1] = c
        /\ transports[d].user # transports[c].user
        /\ transports[d].user \in DOMAIN connections
        /\ connections[transports[d].user] = d

\* the user identifier of an event
EventUser(out) == out.event.wa_id

C24_Envelopes ==
    \A i \in DOMAIN posts :
        LET out == posts[i]
            content == out.payload.content
        IN /\ out.payload.action =
                 (IF out.kind = "message" THEN "message" ELSE "button_click")
           /\ content.channel.type = "dm"
           /\ content.channel.platform_id.id = EventUser(out)
           /\ IF out.kind = "message"
              THEN /\ content.author.platform_id.id = EventUser(out)
                   /\ content.content = out.event.text
              ELSE /\ content.user.platform_id.id = EventUser(out)
                   /\ content.id = out.event.id
                   /\ content.custom_id = out.event.custom_id
           /\ \A j \in DOMAIN posts :
                 (posts[j].kind = out.kind /\ posts[j].event = out.event)
                     => posts[j].payload = out.payload

\* a step that serializes an event touches no map of the service
C24_Pure ==
    posts' # posts =>
        /\ connections' = connections
        /\ user_queues' = user_queues
        /\ user_tasks' = user_tasks
        /\ worker' = worker
        /\ SubSeq(posts', 1, Len(posts)) = posts

\* C24: every envelope serialize_message / serialize_button_click produced has
\* the action tag of its kind of event ("message", "button_click"), channel
\* type "dm", and the event's user identifier as author (or user) platform id
\* and as channel platform id; the same event always gives the same envelope,
\* in the API service and in the WebSocket service; and serializing changes
\* neither the connection map nor the queue and worker maps.
C24_SerializersPure == [](C24_Envelopes) /\ [][C24_Pure]_vars

\* C24 witness: the same message, of a user whose display name differs from
\* the identifier, was serialized by both services
C24_Witness ==
    \E i \in DOMAIN posts : \E j \in DOMAIN posts :
        /\ posts[i].service = "websocket"
        /\ posts[j].service = "api"
        /\ posts[i].kind = "message"
        /\ posts[j].kind = "message"
        /\ posts[i].event = posts[j].event
        /\ posts[i].payload = posts[j].payload
        /\ posts[i].event.name # posts[i].event.wa_id

\* how many sends of call p had failed with a closed transport, and how many
\* connections it had been handed, before this step
ClosedBefore(p) == IF p \in DOMAIN posts THEN posts[p].closed ELSE 0
SendsBefore(p) == IF p \in DOMAIN posts THEN Len(posts[p].sends) ELSE 0

\* the connection on which a send of call p failed in this step with a closed
\* transport, as a set
FailedOn(p) ==
    IF p \in DOMAIN posts' /\ posts'[p].closed > ClosedBefore(p)
    THEN {posts'[p].sends[SendsBefore(p) + 1]}
    ELSE {}

\* C25: a registry entry is removed only on behalf of the connection it
\* holds: the step in which the receive loop of a connection ends removes the
\* user's entry only when the entry holds that connection, and the pop of the
\* retry path removes the entry of the connection the send failed on (the
\* tracked one, or the one the call has just opened and registered).
C25_RemovalOnOwnBehalf ==
    [][\A u \in DOMAIN connections :
          u \notin DOMAIN connections' =>
              \/ \E c \in DOMAIN transports :
                    /\ transports[c].listener = "running"
                    /\ transports'[c].listener # "running"
                    /\ connections[u] = c
              \/ \E p \in DOMAIN posts' : \E c \in FailedOn(p) :
                    /\ posts'[p].user = u
                    /\ c = connections[u] \/ c \notin DOMAIN transports]_vars

\* instruction n was put into the queue of user u / handed to _handle_response
WasEnqueued(u, n) == \E i \in DOMAIN enqueued[u] : enqueued[u][i].n = n
WasHandled(u, n) == \E i \in DOMAIN handled[u] : handled[u][i].n = n

FailsNow(p) ==
    /\ p \in DOMAIN posts'
    /\ posts'[p].result = "error"
    /\ p \in DOMAIN posts => posts[p].result # "error"

AttemptsBefore(p) == IF p \in DOMAIN posts THEN posts[p].attempts ELSE 1

\* the failing step starts no attempt, treats nothing as a closed transport,
\* removes no entry of the registry and changes at most the entry of the
\* call's user, to the connection the call just opened
C27_Step ==
    \A p \in 1..MaxPosts :
        FailsNow(p) =>
            /\ posts'[p].pc = "done"
            /\ posts'[p].attempts = AttemptsBefore(p)
            /\ posts'[p].closed = ClosedBefore(p)
            /\ posts'[p].is_retry = (posts'[p].closed = 1)
            /\ \A x \in DOMAIN connections :
                  /\ x \in DOMAIN connections'
                  /\ x # posts'[p].user => connections'[x] = connections[x]
            /\ \/ connections' = connections
               \/ /\ Len(posts'[p].sends) = SendsBefore(p) + 1
                  /\ Last(posts'[p].sends) \notin DOMAIN transports
                  /\ connections' = Register(connections, posts'[p].user,
                                             Last(posts'[p].sends))

\* a call that ended this way is over: nothing of it changes afterwards
C27_Over ==
    \A p \in DOMAIN posts : posts[p].result = "error" => posts'[p] = posts[p]

\* one attempt, and one more only for a closed transport met before
C27_Attempts ==
    \A p \in DOMAIN posts :
        posts[p].result = "error" =>
            /\ posts[p].pc = "done"
            /\ posts[p].attempts = posts[p].closed + 1
            /\ posts[p].closed = 0 => (posts[p].attempts = 1 /\ ~posts[p].is_retry)
            /\ Len(posts[p].sends) <= posts[p].attempts

\* C27: when websockets.connect or connection.send raises an exception that is
\* not ConnectionClosed, the call ends with it at once: no further attempt is
\* started (a call that met no closed transport made exactly one), and the
\* step removes no entry from the connection registry.
C27_OtherFailurePropagates ==
    [](C27_Attempts) /\ [][C27_Step /\ C27_Over]_vars

\* C27 witness: a user's connection is tracked; a call of that user whose
\* connect failed and a call whose send raised have both ended with the
\* error after one attempt
C27_Witness ==
    \E p \in DOMAIN posts : \E q \in DOMAIN posts :
        /\ posts[p].result = "error" /\ posts[p].sends = <<>>
        /\ posts[p].attempts = 1
        /\ posts[q].result = "error" /\ Len(posts[q].sends) = 1
        /\ posts[q].attempts = 1
        /\ posts[q].user = posts[p].user
        /\ tracked(connections, posts[p].user)

====
